---------------------------- MODULE Spec2Model ----------------------------
(***************************************************************************)
(* A model of the ODL/RL CUDA space wrappers (odl/space/cuda.py,           *)
(* RL/space/cuda.py) and of the input normalisation helpers                *)
(* (odl/util/normalize.py).                                                *)
(*                                                                         *)
(* Six specifications share the variables below:                           *)
(*   SpecParam  calls of normalized_scalar_param_list                      *)
(*   SpecIndex  calls of normalized_index_expression                       *)
(*   SpecSpace  construction and comparison of CudaFn / CudaRn spaces      *)
(*   SpecLoad   the import of odl.space.cuda, then SpecSpace               *)
(*   SpecVec    vectors of two spaces and the operations on them           *)
(*   SpecFwd    the elementwise functions of odl and RL                    *)
(***************************************************************************)
EXTENDS Integers, Sequences, FiniteSets, TLC

VARIABLES
    nsp,          \* the current call of normalized_scalar_param_list
    nie,          \* the current call of normalized_index_expression
    int_itemsize, \* np.dtype(np.int).itemsize of the platform (4 or 8)
    spaces,       \* the space objects constructed so far
    mem,          \* native storage: one sequence of cells per allocation
    vectors,      \* the CudaFn.Vector objects constructed so far
    module_state, \* the import of odl.space.cuda: status, loads tried, probes made
    last          \* the last call made on the space layer, with its outcome

vars == <<nsp, nie, int_itemsize, spaces, mem, vectors, module_state, last>>

---------------------------------------------------------------------------
(* Bounds of the model. *)

\* longest parameter sequence handed to normalized_scalar_param_list
MaxParamLen == 3
\* largest `length` argument of normalized_scalar_param_list
MaxLength == 3
\* longest index expression handed to normalized_index_expression
MaxIndexLen == 3
\* largest number of axes of a shape
MaxNdim == 2
\* largest dimension of a space
MaxDim == 2
\* most space objects constructed in one run of SpecSpace
MaxSpaces == 2
\* most imports of the module tried in one run of SpecLoad
MaxLoads == 2
\* most vector objects alive in one run of SpecVec
MaxVecs == 2
\* largest absolute value a cell of native storage holds
MaxVal == 1

---------------------------------------------------------------------------
(* Python values. *)

\* An optional integer: None or an int.
NoneOpt == [some |-> FALSE, v |-> 0]
Some(i) == [some |-> TRUE, v |-> i]

Repeat(x, n) == [i \in 1..n |-> x]

\* The sequences over S of length 0..n
SeqUpTo(S, n) == UNION {[1..k -> S] : k \in 0..n}

\* A scalar parameter value: an int, None or a str (v is the int, or the
\* length of the str); c counts the conversions applied to it.
PyInt(i) == [t |-> "int", v |-> i, c |-> 0]
PyNone == [t |-> "none", v |-> 0, c |-> 0]
PyStr(n) == [t |-> "str", v |-> n, c |-> 0]

ScalarParams == {PyInt(0), PyInt(1), PyNone, PyStr(3)}

---------------------------------------------------------------------------
(* odl/util/normalize.py: normalized_scalar_param_list *)

Returned(v) == [exc |-> "none", val |-> v]
Raised(e) == [exc |-> e, val |-> <<>>]

\* np.array(param, dtype=object, copy=True, ndmin=1): a scalar (a str
\* included) becomes an array of shape (1,), a sequence of scalars an array
\* of its entries.
np_array_ndmin1(param) ==
    IF param.kind = "scalar" THEN <<param.val>> ELSE param.items

\* np.broadcast_to(arr, (length,)) for a 1-d array
np_broadcast_to(arr, length) ==
    IF Len(arr) = length THEN Returned(arr)
    ELSE IF Len(arr) = 1 THEN Returned(Repeat(arr[1], length))
    ELSE Raised("ValueError")

\* The except branch, taken when numpy has no broadcast_to: `param` was
\* already rebound to the array, so np.isscalar(param) is False and
\* len(param) never raises.
nsp_fallback(arr, length) ==
    IF Len(arr) = 1 THEN Returned(Repeat(arr[1], length))
    ELSE IF Len(arr) = length THEN Returned(arr)
    ELSE Raised("ValueError")

\* param_conv(p) for a given conversion: it is applied to the value, which
\* records it.
param_conv_apply(p) == [p EXCEPT !.c = @ + 1]

\* a conversion loop that ignores keep_none
nsp_convert_all(out_list, param_conv, keep_none) ==
    IF param_conv = "none" THEN out_list
    ELSE [i \in 1..Len(out_list) |-> param_conv_apply(out_list[i])]

\* lines 142-147: the conversion loop
nsp_convert(out_list, param_conv, keep_none) ==
    IF param_conv = "none" THEN out_list
    ELSE [i \in 1..Len(out_list) |->
            IF out_list[i].t = "none" /\ keep_none
            THEN out_list[i]
            ELSE param_conv_apply(out_list[i])]

\* a broadcast that always repeats the first entry
nsp_broadcast_first(param, length, has_broadcast_to) ==
    LET arr == np_array_ndmin1(param)
    IN IF Len(arr) >= 1 THEN Returned(Repeat(arr[1], length))
       ELSE Raised("ValueError")

\* lines 114-136: the list before conversion
nsp_broadcast(param, length, has_broadcast_to) ==
    LET arr == np_array_ndmin1(param)
    IN IF has_broadcast_to THEN np_broadcast_to(arr, length)
       ELSE nsp_fallback(arr, length)

normalized_scalar_param_list(param, length, param_conv, keep_none, has_broadcast_to) ==
    IF length <= 0 THEN Raised("ValueError")
    ELSE LET b == nsp_broadcast(param, length, has_broadcast_to)
         IN IF b.exc # "none" THEN b
            ELSE IF Len(b.val) # length THEN Raised("ValueError")
            ELSE Returned(nsp_convert(b.val, param_conv, keep_none))

ParamInputs ==
    {[kind |-> "scalar", val |-> s, items |-> <<>>] : s \in ScalarParams}
    \cup {[kind |-> "seq", val |-> PyNone, items |-> q] :
            q \in SeqUpTo(ScalarParams, MaxParamLen)}

NspIdle ==
    [param |-> [kind |-> "scalar", val |-> PyNone, items |-> <<>>],
     length |-> 1, param_conv |-> "none", keep_none |-> TRUE,
     has_broadcast_to |-> TRUE, called |-> FALSE, out |-> Raised("none")]

NspInit ==
    nsp \in {[NspIdle EXCEPT !.param = p, !.length = n, !.param_conv = f,
                             !.keep_none = k, !.has_broadcast_to = h] :
                p \in ParamInputs, n \in -1..MaxLength,
                f \in {"none", "conv"}, k \in BOOLEAN, h \in BOOLEAN}

NspCall ==
    /\ ~nsp.called
    /\ nsp' = [nsp EXCEPT
                 !.called = TRUE,
                 !.out = normalized_scalar_param_list(
                            nsp.param, nsp.length, nsp.param_conv,
                            nsp.keep_none, nsp.has_broadcast_to)]
    /\ UNCHANGED <<module_state, nie, int_itemsize, spaces, mem, vectors, last>>

---------------------------------------------------------------------------
(* odl/util/normalize.py: normalized_index_expression *)

\* One entry of an index expression: an int (a), a slice (start a, stop b,
\* no step), Ellipsis or None.
IntIdx(i) == [k |-> "int", a |-> Some(i), b |-> NoneOpt]
Slice(a, b) == [k |-> "slice", a |-> a, b |-> b]
EllipsisIdx == [k |-> "ellipsis", a |-> NoneOpt, b |-> NoneOpt]
NoneIdx == [k |-> "none", a |-> NoneOpt, b |-> NoneOpt]
FullSlice == Slice(NoneOpt, NoneOpt)

Max(a, b) == IF a >= b THEN a ELSE b
Min(a, b) == IF a <= b THEN a ELSE b

\* indices.count(Ellipsis)
CountEllipsis(ix) == Cardinality({i \in 1..Len(ix) : ix[i].k = "ellipsis"})
\* indices.index(Ellipsis), 1-based
IndexOfEllipsis(ix) == CHOOSE i \in 1..Len(ix) : ix[i].k = "ellipsis" /\ \A j \in 1..(i - 1) : ix[j].k # "ellipsis"

\* lines 219-224: a bare int becomes [int, Ellipsis], a bare slice or
\* Ellipsis a one-entry list, a sequence is copied by list()
nie_listify(indices) ==
    IF indices.kind = "bare" /\ indices.items[1].k = "int"
    THEN <<indices.items[1], EllipsisIdx>>
    ELSE indices.items

\* lines 225-226
nie_pad(ix, ndim) ==
    IF Len(ix) < ndim /\ CountEllipsis(ix) = 0 THEN Append(ix, EllipsisIdx) ELSE ix

\* an expansion that puts the full slices at the end, wherever the
\* Ellipsis stood
nie_expand_at_end(ix, ndim) ==
    IF CountEllipsis(ix) = 0 THEN Returned(ix)
    ELSE IF CountEllipsis(ix) > 1 THEN Raised("ValueError")
    ELSE LET eidx == IndexOfEllipsis(ix)
             extra_dims == ndim - Len(ix) + 1
         IN Returned(SubSeq(ix, 1, eidx - 1) \o SubSeq(ix, eidx + 1, Len(ix)) \o Repeat(FullSlice, Max(extra_dims, 0)))

\* an ellipsis check that lets two of them through
nie_expand_first(ix, ndim) ==
    IF CountEllipsis(ix) = 0 THEN Returned(ix)
    ELSE LET eidx == IndexOfEllipsis(ix)
             extra_dims == ndim - Len(ix) + 1
         IN Returned(SubSeq(ix, 1, eidx - 1) \o Repeat(FullSlice, Max(extra_dims, 0)) \o SubSeq(ix, eidx + 1, Len(ix)))

\* lines 229-236: [slice(None)] * extra_dims is empty for extra_dims < 0
nie_expand(ix, ndim) ==
    IF CountEllipsis(ix) = 0 THEN Returned(ix)
    ELSE IF CountEllipsis(ix) > 1 THEN Raised("ValueError")
    ELSE LET eidx == IndexOfEllipsis(ix)
             extra_dims == ndim - Len(ix) + 1
         IN Returned(SubSeq(ix, 1, eidx - 1) \o Repeat(FullSlice, Max(extra_dims, 0)) \o SubSeq(ix, eidx + 1, Len(ix)))

\* lines 241-242: idx += n for a negative idx
nie_wrap(idx, n) == IF idx < 0 THEN idx + n ELSE idx

\* lines 239-249: zip stops at the shorter of indices and shape
nie_ints(ix, shape, int_to_slice) ==
    LET m == Min(Len(ix), Len(shape))
        oob(i) == ix[i].k = "int" /\ nie_wrap(ix[i].a.v, shape[i]) >= shape[i]
    IN IF \E i \in 1..m : oob(i) THEN Raised("IndexError")
       ELSE Returned([i \in 1..Len(ix) |->
                IF i <= m /\ ix[i].k = "int" /\ int_to_slice
                THEN LET idx == nie_wrap(ix[i].a.v, shape[i])
                     IN Slice(Some(idx), Some(idx + 1))
                ELSE ix[i]])

\* line 252-253: s.start == s.stop and s.start is not None or s.start == n
nie_empty_slice(s, n) ==
    \/ (s.a = s.b /\ s.a.some)
    \/ (s.a.some /\ s.a.v = n)

\* checks that let any number of entries through
nie_checks_any_length(ix, shape) ==
    LET m == Min(Len(ix), Len(shape))
    IN IF \E i \in 1..m : ix[i].k = "slice" /\ nie_empty_slice(ix[i], shape[i])
       THEN Raised("ValueError")
       ELSE IF \E i \in 1..Len(ix) : ix[i].k = "none" THEN Raised("ValueError")
       ELSE Returned(ix)

\* checks that let a None entry through
nie_checks_allow_none(ix, shape) ==
    LET m == Min(Len(ix), Len(shape))
    IN IF \E i \in 1..m : ix[i].k = "slice" /\ nie_empty_slice(ix[i], shape[i])
       THEN Raised("ValueError")
       ELSE IF Len(ix) > Len(shape) THEN Raised("IndexError")
       ELSE Returned(ix)

\* lines 251-262
nie_checks(ix, shape) ==
    LET m == Min(Len(ix), Len(shape))
    IN IF \E i \in 1..m : ix[i].k = "slice" /\ nie_empty_slice(ix[i], shape[i])
       THEN Raised("ValueError")
       ELSE IF \E i \in 1..Len(ix) : ix[i].k = "none" THEN Raised("ValueError")
       ELSE IF Len(ix) > Len(shape) THEN Raised("IndexError")
       ELSE Returned(ix)

normalized_index_expression(indices, shape, int_to_slice) ==
    LET ndim == Len(shape)
        e == nie_expand(nie_pad(nie_listify(indices), ndim), ndim)
    IN IF e.exc # "none" THEN e
       ELSE LET c == nie_ints(e.val, shape, int_to_slice)
            IN IF c.exc # "none" THEN c ELSE nie_checks(c.val, shape)

\* a list() that hands back the caller's own list
nie_list_shares_argument(indices) == indices.kind = "seq"

\* line 224: does the local list share storage with the caller's sequence?
\* list(indices) builds a new list, and a bare index was wrapped in a new
\* list by lines 219-222.
nie_list_shares(indices) == FALSE

\* lines 239-249 as they act on the list object in place: the entries
\* before the first out-of-bounds integer are replaced
nie_ints_in_place(ix, shape, int_to_slice) ==
    LET m == Min(Len(ix), Len(shape))
        oob(i) == ix[i].k = "int" /\ nie_wrap(ix[i].a.v, shape[i]) >= shape[i]
        done(i) == i <= m /\ \A j \in 1..i : ~oob(j)
    IN [i \in 1..Len(ix) |->
           IF done(i) /\ ix[i].k = "int" /\ int_to_slice
           THEN LET idx == nie_wrap(ix[i].a.v, shape[i])
                IN Slice(Some(idx), Some(idx + 1))
           ELSE ix[i]]

\* The entries of the caller's sequence when the call is over: the append of
\* line 226 and the assignments of line 249 act on the local list object;
\* line 234 rebinds the local name to a new list when an Ellipsis is there.
nie_argument(indices, shape, int_to_slice) ==
    IF ~nie_list_shares(indices) THEN indices.items
    ELSE LET padded == nie_pad(indices.items, Len(shape))
         IN IF CountEllipsis(padded) > 0 THEN padded
            ELSE nie_ints_in_place(padded, shape, int_to_slice)

IntEntries == {IntIdx(i) : i \in {-4, -1, 0, 2, 3}}
SliceEntries == {FullSlice, Slice(NoneOpt, Some(2)), Slice(Some(1), Some(1)), Slice(Some(3), NoneOpt)}
IndexEntries == IntEntries \cup SliceEntries \cup {EllipsisIdx, NoneIdx}
AxisSizes == {1, 3}

IndexInputs ==
    {[kind |-> "bare", items |-> <<e>>] : e \in IntEntries \cup SliceEntries \cup {EllipsisIdx}}
    \cup {[kind |-> "seq", items |-> q] : q \in SeqUpTo(IndexEntries, MaxIndexLen)}

NieIdle ==
    [indices |-> [kind |-> "seq", items |-> <<>>], shape |-> <<>>,
     int_to_slice |-> FALSE, called |-> FALSE, out |-> Raised("none"),
     argument |-> <<>>]

NieInit ==
    nie \in {[NieIdle EXCEPT !.indices = x, !.shape = s, !.int_to_slice = f,
                           !.argument = x.items] :
                x \in IndexInputs, s \in SeqUpTo(AxisSizes, MaxNdim), f \in BOOLEAN}

NieCall ==
    /\ ~nie.called
    /\ nie' = [nie EXCEPT
                 !.called = TRUE,
                 !.out = normalized_index_expression(nie.indices, nie.shape, nie.int_to_slice),
                 !.argument = nie_argument(nie.indices, nie.shape, nie.int_to_slice)]
    /\ UNCHANGED <<module_state, nsp, int_itemsize, spaces, mem, vectors, last>>

---------------------------------------------------------------------------
(* odl/space/cuda.py: the import of the module *)

\* The module before its import, and after an import that succeeded
Unloaded == [status |-> "unloaded", loads |-> 0, probes |-> 0]
Loaded == [status |-> "loaded", loads |-> 1, probes |-> 1]

\* What CudaRn(1).element() can do on a machine: succeed, fail for lack of
\* device memory, or fail in another way
ProbeOutcomes == {"none", "MemoryError", "RuntimeError"}

\* a probe that turns every failure into ImportError
module_probe_catch_all(outcome) ==
    IF outcome # "none" THEN "ImportError" ELSE "none"

\* lines 653-658: try: CudaRn(1).element() / except MemoryError: raise
\* ImportError; the exception that leaves the module body ("none": none)
module_probe(outcome) ==
    IF outcome = "MemoryError" THEN "ImportError" ELSE outcome

\* import odl.space.cuda, the probe doing `outcome`.  A module that failed
\* to load is not cached, so a later import runs the module body again.
ImportModule(outcome) ==
    /\ module_state.status # "loaded"
    /\ module_state.loads < MaxLoads
    /\ LET exc == module_probe(outcome)
       IN /\ module_state' = [status |-> IF exc = "none" THEN "loaded" ELSE "failed",
                              loads |-> module_state.loads + 1,
                              probes |-> module_state.probes + 1]
          /\ last' = [op |-> "import", exc |-> exc, probe |-> outcome]
    /\ UNCHANGED <<nsp, nie, int_itemsize, spaces, mem, vectors>>

---------------------------------------------------------------------------
(* odl/space/cuda.py: CudaFn and CudaRn, construction and equality *)

\* The np.dtype objects the table CudaFn.dtypes is keyed by; np.float is
\* float64 and np.int is int32 or int64, so the table has these ten keys.
SupportedDTypes == {"float32", "float64", "int8", "int16", "int32", "int64", "uint8", "uint16", "uint32", "uint64"}

\* What a caller may pass as dtype: the ten, the Python types float and int,
\* numpy types without an entry, and something that is no data type.
DTypeInputs == SupportedDTypes \cup {"float", "int", "float16", "complex64", "bool", "spam"}

\* What a caller may pass as dim: an int, a float, a str.
DimInputs == {[t |-> "int", v |-> n] : n \in -1..MaxDim} \cup {[t |-> "float", v |-> 2], [t |-> "str", v |-> 0]}

\* _get_int_type, the table entry of np.dtype(np.int)
get_int_type(itemsize) == IF itemsize = 4 THEN "CudaVectorInt32" ELSE "CudaVectorInt64"

\* np.dtype(dtype): "none" stands for the TypeError of an unknown data type
np_dtype(dtype, itemsize) ==
    IF dtype = "float" THEN "float64"
    ELSE IF dtype = "int" THEN (IF itemsize = 4 THEN "int32" ELSE "int64")
    ELSE IF dtype = "spam" THEN "none"
    ELSE dtype

\* The dict literal CudaFn.dtypes, as its (key, value) pairs in order; a
\* later pair with the same key replaces an earlier one.
dtypes(itemsize) ==
    << <<np_dtype("float", itemsize), "CudaVectorFloat64">>,
       <<"float32", "CudaVectorFloat32">>,
       <<"float64", "CudaVectorFloat64">>,
       <<np_dtype("int", itemsize), get_int_type(itemsize)>>,
       <<"int8", "CudaVectorInt8">>,
       <<"int16", "CudaVectorInt16">>,
       <<"int32", "CudaVectorInt32">>,
       <<"int64", "CudaVectorInt64">>,
       <<"uint8", "CudaVectorUInt8">>,
       <<"uint16", "CudaVectorUInt16">>,
       <<"uint32", "CudaVectorUInt32">>,
       <<"uint64", "CudaVectorUInt64">> >>

\* CudaFn.dtypes.get(dt): the implementation class, or "None"
dtypes_get(dt, itemsize) ==
    LET d == dtypes(itemsize)
        hits == {i \in 1..Len(d) : d[i][1] = dt}
    IN IF hits = {} THEN "None"
       ELSE d[CHOOSE i \in hits : \A j \in hits : j <= i][2]

NoSpace == [cls |-> "none", dim |-> 0, dtype |-> "none", vector_impl |-> "None"]

\* a constructor that rejects only negative dimensions
CudaFn_init_dim0(cls, dim, dtype, itemsize) ==
    IF dim.t # "int" \/ dim.v < 0 THEN [exc |-> "TypeError", obj |-> NoSpace]
    ELSE LET dt == np_dtype(dtype, itemsize)
         IN IF dt = "none" \/ dtypes_get(dt, itemsize) = "None"
            THEN [exc |-> "TypeError", obj |-> NoSpace]
            ELSE [exc |-> "none", obj |-> [cls |-> cls, dim |-> dim.v, dtype |-> dt, vector_impl |-> dtypes_get(dt, itemsize)]]

\* CudaFn.__init__(self, dim, dtype) on an object of class cls
CudaFn_init(cls, dim, dtype, itemsize) ==
    IF dim.t # "int" \/ dim.v < 1 THEN [exc |-> "TypeError", obj |-> NoSpace]
    ELSE LET dt == np_dtype(dtype, itemsize)
         IN IF dt = "none" \/ dtypes_get(dt, itemsize) = "None"
            THEN [exc |-> "TypeError", obj |-> NoSpace]
            ELSE [exc |-> "none", obj |-> [cls |-> cls, dim |-> dim.v, dtype |-> dt, vector_impl |-> dtypes_get(dt, itemsize)]]

\* CudaRn.__init__(self, dim): super().__init__(dim, np.float32)
CudaRn_init(dim, itemsize) == CudaFn_init("CudaRn", dim, "float32", itemsize)

\* CudaFn.equals(self, other)
equals(self, other) ==
    /\ self.cls = other.cls
    /\ self.dim = other.dim
    /\ self.dtype = other.dtype

\* The call CudaFn(dim, dtype)
NewCudaFn(dim, dtype) ==
    /\ Len(spaces) < MaxSpaces
    /\ LET r == CudaFn_init("CudaFn", dim, dtype, int_itemsize)
       IN /\ spaces' = IF r.exc = "none" THEN Append(spaces, r.obj) ELSE spaces
          /\ last' = [op |-> "CudaFn", dim |-> dim, dtype |-> dtype, exc |-> r.exc,
                      ret |-> IF r.exc = "none" THEN Len(spaces) + 1 ELSE 0, other |-> Len(spaces)]
    /\ UNCHANGED <<module_state, nsp, nie, int_itemsize, mem, vectors>>

\* The call CudaRn(dim)
NewCudaRn(dim) ==
    /\ Len(spaces) < MaxSpaces
    /\ LET r == CudaRn_init(dim, int_itemsize)
       IN /\ spaces' = IF r.exc = "none" THEN Append(spaces, r.obj) ELSE spaces
          /\ last' = [op |-> "CudaRn", dim |-> dim, dtype |-> "float32", exc |-> r.exc,
                      ret |-> IF r.exc = "none" THEN Len(spaces) + 1 ELSE 0, other |-> Len(spaces)]
    /\ UNCHANGED <<module_state, nsp, nie, int_itemsize, mem, vectors>>

\* The call spaces[i].equals(spaces[j]); ret is 1 for True, 0 for False
Equals(i, j) ==
    /\ last' = [op |-> "equals", dim |-> [t |-> "int", v |-> 0], dtype |-> "none", exc |-> "none",
                ret |-> IF equals(spaces[i], spaces[j]) THEN 1 ELSE 0, other |-> j, self |-> i]
    /\ UNCHANGED <<module_state, nsp, nie, int_itemsize, spaces, mem, vectors>>

---------------------------------------------------------------------------
(* The native extension odlpp_cuda: the entry points of a CudaVector*      *)
(* handle.  Its code is not part of the sources; the operators follow the   *)
(* contract the specification gives for them.                               *)

CellVals == (0 - MaxVal)..MaxVal

\* A handle: its class, the address of its storage and its size.
Handle(impl, ptr, size) == [impl |-> impl, ptr |-> ptr, size |-> size]
\* An object that is no CudaVector* handle (a host array, say).
NotAHandle == Handle("ndarray", 0, 0)

RECURSIVE SumSeq(_)
SumSeq(q) == IF q = <<>> THEN 0 ELSE Head(q) + SumSeq(Tail(q))

\* The positions (1-based) slice s selects of n cells; start and stop are
\* None or non-negative here.
SlicePositions(s, n) ==
    LET start == IF s.a.some THEN Min(s.a.v, n) ELSE 0
        stop == IF s.b.some THEN Min(s.b.v, n) ELSE n
    IN (start + 1)..stop

\* CudaVector*.getslice(index)
native_getslice(cells, s) ==
    LET pos == SlicePositions(s, Len(cells))
    IN Returned([i \in 1..Cardinality(pos) |-> cells[i + (CHOOSE k \in 0..Len(cells) : \A q \in pos : q > k /\ (k + 1 \in pos))]])

\* CudaVector*.setslice(index, value): the sizes are checked natively
native_setslice(cells, s, value) ==
    LET start == IF s.a.some THEN Min(s.a.v, Len(cells)) ELSE 0
        pos == SlicePositions(s, Len(cells))
    IN IF Len(value) # Cardinality(pos) THEN Raised("ValueError")
       ELSE Returned([i \in 1..Len(cells) |-> IF i \in pos THEN value[i - start] ELSE cells[i]])

\* CudaVector*.__getitem__(index) for an int index (0-based)
native_getitem(cells, i) ==
    IF i < 0 \/ i >= Len(cells) THEN Raised("IndexError") ELSE Returned(<<cells[i + 1]>>)

\* CudaVector*.__setitem__(index, value) for an int index (0-based)
native_setitem(cells, i, value) ==
    IF i < 0 \/ i >= Len(cells) THEN Raised("IndexError") ELSE Returned([cells EXCEPT ![i + 1] = value])

\* z.linComb(a, x, b, y): z := a*x + b*y
native_linComb(z, a, x, b, y) == [i \in 1..Len(z) |-> a * x[i] + b * y[i]]

\* z.multiply(x, y): z := x*y, cell by cell
native_multiply(z, x, y) == [i \in 1..Len(z) |-> x[i] * y[i]]

\* x.inner(y)
native_inner(x, y) == SumSeq([i \in 1..Len(x) |-> x[i] * y[i]])

\* A non-negative real given by its square.
Sqrt(n) == [sq |-> n]
Square(r) == r.sq

\* x.norm()
native_norm(x) == Sqrt(SumSeq([i \in 1..Len(x) |-> x[i] * x[i]]))

---------------------------------------------------------------------------
(* odl/space/cuda.py: vectors *)

HostVals == {-1, 0, 257}
HostArrays == SeqUpTo(HostVals, MaxDim) \ {<<>>}
Scalars == {-1, 0, 2}
VecDTypes == {"int8"}

\* The value of v as a dtype element, as the cast of np.asarray makes it:
\* 8- and 16-bit integers wrap; the wider types and the floats hold every
\* host value of the model exactly.
np_cast(v, dtype) ==
    CASE dtype = "int8" -> ((v + 128) % 256) - 128
      [] dtype = "uint8" -> v % 256
      [] dtype = "int16" -> ((v + 32768) % 65536) - 32768
      [] dtype = "uint16" -> v % 65536
      [] OTHER -> v

\* np.asarray(value, dtype=self.space._dtype)
np_asarray(value, dtype) == [i \in 1..Len(value) |-> np_cast(value[i], dtype)]

\* The indices a caller reads and writes a vector with: ints from 0 and
\* slices without step.
VecInts(n) == {IntIdx(i) : i \in 0..n}
VecSlices == {FullSlice, Slice(Some(0), Some(1)), Slice(Some(1), NoneOpt), Slice(Some(1), Some(1))}
VecIndices(n) == VecInts(n) \cup VecSlices

\* The storage a vector reads and writes
Cells(m, v) == m[v.data.ptr]

\* a constructor that accepts any data
Vector_init_unchecked(space, data) == [ret |-> "None", data |-> data]

\* CudaFn.Vector.__init__(self, space, data): what it returns and the _data
\* it has set (NotAHandle while unset)
Vector_init(space, data) ==
    IF data.impl # space.vector_impl
    THEN [ret |-> "TypeError", data |-> NotAHandle]
    ELSE [ret |-> "None", data |-> data]

\* The call CudaFn.Vector(space, data): a call of a class raises TypeError
\* when __init__ returns anything but None
Vector_new(si, data) ==
    LET r == Vector_init(spaces[si], data)
    IN IF r.ret # "None" THEN [exc |-> "TypeError", obj |-> [space |-> si, data |-> r.data]]
       ELSE [exc |-> "none", obj |-> [space |-> si, data |-> r.data]]

\* CudaFn.Vector.__getitem__(self, index)
Vector_getitem(m, v, index) ==
    IF index.k = "slice" THEN native_getslice(Cells(m, v), index)
    ELSE native_getitem(Cells(m, v), index.a.v)

\* an int write that fills the vector from the index on
Vector_setitem_fill(m, v, dtype, index, value) ==
    IF index.k = "slice" THEN native_setslice(Cells(m, v), index, np_asarray(value, dtype))
    ELSE IF native_setitem(Cells(m, v), index.a.v, value[1]).exc # "none"
    THEN native_setitem(Cells(m, v), index.a.v, value[1])
    ELSE Returned([k \in 1..Len(Cells(m, v)) |-> IF k > index.a.v THEN value[1] ELSE Cells(m, v)[k]])

\* CudaFn.Vector.__setitem__(self, index, value): the cells after it
Vector_setitem(m, v, dtype, index, value) ==
    IF index.k = "slice" THEN native_setslice(Cells(m, v), index, np_asarray(value, dtype))
    ELSE native_setitem(Cells(m, v), index.a.v, value[1])

\* a linear combination with the scalars exchanged
lincomb_swapped(m, z, a, x, b, y) == native_linComb(Cells(m, z), b, Cells(m, x), a, Cells(m, y))

\* CudaFn._lincomb(self, z, a, x, b, y): the cells of z after it
lincomb(m, z, a, x, b, y) == native_linComb(Cells(m, z), a, Cells(m, x), b, Cells(m, y))

\* CudaRn._inner(self, x, y)
inner(m, x, y) == native_inner(Cells(m, x), Cells(m, y))

\* a norm that returns the squared norm
norm_squared(m, x) == Sqrt(native_inner(Cells(m, x), Cells(m, x)) * native_inner(Cells(m, x), Cells(m, x)))

\* CudaRn._norm(self, x)
norm(m, x) == native_norm(Cells(m, x))

\* CudaRn._multiply(self, z, x, y): the cells of z after it
multiply(m, z, x, y) == native_multiply(Cells(m, z), Cells(m, x), Cells(m, y))

\* a length read off the element size of the dtype
Vector_len_itemsize(v) == IF spaces[v.space].dtype = "int8" THEN 1 ELSE 4

\* CudaFn.Vector.__len__(self): self.space.dim
Vector_len(v) == spaces[v.space].dim

Call(op, exc, ret) == [op |-> op, exc |-> exc, ret |-> ret]
InCells(cells) == \A i \in 1..Len(cells) : cells[i] \in CellVals

\* a vector made on the newest storage there is instead of a fresh one
NewVector_shared(si, cells) ==
    Vector_new(si, Handle(spaces[si].vector_impl, Max(Len(mem), 1), spaces[si].dim))

\* The vector a space makes of a fresh allocation holding cells
NewVector(si, cells) ==
    Vector_new(si, Handle(spaces[si].vector_impl, Len(mem) + 1, spaces[si].dim))

\* space.element(): the allocation self._vector_impl(self.dim) is not
\* initialised, so its cells hold any values
ElementEmpty(si, cells) ==
    /\ Len(vectors) < MaxVecs
    /\ mem' = Append(mem, cells)
    /\ vectors' = Append(vectors, NewVector(si, cells).obj)
    /\ last' = Call("element", "none", <<>>)
    /\ UNCHANGED <<module_state, nsp, nie, int_itemsize, spaces>>

\* an element(inp) that forgets to copy inp
element_inp_uncopied(si, cells, inp) == Returned(cells)

\* space.element(inp): elem = self.element(); elem[:] = inp; the cells of
\* elem, allocated holding `cells`
element_inp(si, cells, inp) ==
    LET elem == NewVector(si, cells).obj
    IN Vector_setitem(Append(mem, cells), elem, spaces[si].dtype, FullSlice, inp)

ElementInp(si, inp) ==
    /\ Len(vectors) < MaxVecs
    /\ \E cells \in [1..spaces[si].dim -> CellVals] :
       LET r == element_inp(si, cells, inp)
       IN /\ r.exc = "none" => InCells(r.val)
          /\ mem' = IF r.exc = "none" THEN Append(mem, r.val) ELSE mem
          /\ vectors' = IF r.exc = "none" THEN Append(vectors, NewVector(si, cells).obj) ELSE vectors
          /\ last' = Call("element_inp", r.exc, <<>>)
    /\ UNCHANGED <<module_state, nsp, nie, int_itemsize, spaces>>

\* CudaVector*.data_ptr(): the address of the storage of a handle
native_data_ptr(h) == h.ptr

\* CudaVector*.from_pointer(ptr, size): a handle on the storage at ptr
native_from_pointer(impl, ptr, size) == Handle(impl, ptr, size)

\* CudaFn.Vector.data_ptr
data_ptr(v) == native_data_ptr(v.data)

\* The arguments inp and data_ptr of element(): None or a value
NoInp == [some |-> FALSE, v |-> <<>>]
SomeInp(a) == [some |-> TRUE, v |-> a]

\* a dispatch that looks at inp first and ignores data_ptr when inp is given
element_dispatch_inp_first(inp, ptr) ==
    IF inp.some THEN "inp"
    ELSE IF ptr.some THEN "from_pointer"
    ELSE "empty"

\* CudaFn.element(self, inp=None, data_ptr=None): the branch taken
element_dispatch(inp, ptr) ==
    IF ~inp.some /\ ~ptr.some THEN "empty"
    ELSE IF ~inp.some THEN "from_pointer"
    ELSE IF ~ptr.some THEN "inp"
    ELSE "TypeError"

\* an element(data_ptr=ptr) that copies the storage at ptr
element_from_pointer_copied(m, si, ptr) ==
    [mem |-> Append(m, m[ptr]), data |-> Handle(spaces[si].vector_impl, Len(m) + 1, spaces[si].dim)]

\* self._vector_impl.from_pointer(data_ptr, self.dim) in element(): the
\* storage after it and the handle it gives
element_from_pointer(m, si, ptr) ==
    [mem |-> m, data |-> native_from_pointer(spaces[si].vector_impl, ptr, spaces[si].dim)]

\* space.element(data_ptr=ptr):
\* self.Vector(self, self._vector_impl.from_pointer(data_ptr, self.dim))
ElementPtr(si, ptr) ==
    /\ Len(vectors) < MaxVecs
    /\ LET h == element_from_pointer(mem, si, ptr)
           r == Vector_new(si, h.data)
       IN /\ mem' = h.mem
          /\ vectors' = IF r.exc = "none" THEN Append(vectors, r.obj) ELSE vectors
          /\ last' = Call("element_ptr", r.exc, <<>>)
    /\ UNCHANGED <<module_state, nsp, nie, int_itemsize, spaces>>

\* space.element(inp, data_ptr) with both given: raise TypeError
ElementBoth(si) ==
    /\ last' = Call("element_both", "TypeError", <<>>)
    /\ UNCHANGED <<module_state, nsp, nie, int_itemsize, spaces, mem, vectors>>

\* space.element(inp, data_ptr)
Element(si, inp, ptr) ==
    LET how == element_dispatch(inp, ptr)
    IN \/ how = "empty" /\ \E cells \in [1..spaces[si].dim -> CellVals] : ElementEmpty(si, cells)
       \/ how = "from_pointer" /\ ElementPtr(si, ptr.v)
       \/ how = "inp" /\ ElementInp(si, inp.v)
       \/ how = "TypeError" /\ ElementBoth(si)

\* The pointers a caller holds for a space: the data_ptr of the vectors
\* whose storage has the space's element type
PtrsFor(si) ==
    {data_ptr(vectors[i]) : i \in {j \in 1..Len(vectors) : vectors[j].data.impl = spaces[si].vector_impl}}

\* space.zero(): self.Vector(self, self._vector_impl(self.dim, 0))
Zero(si) ==
    /\ Len(vectors) < MaxVecs
    /\ mem' = Append(mem, Repeat(0, spaces[si].dim))
    /\ vectors' = Append(vectors, NewVector(si, Repeat(0, spaces[si].dim)).obj)
    /\ last' = Call("zero", "none", <<>>)
    /\ UNCHANGED <<module_state, nsp, nie, int_itemsize, spaces>>

\* The call space.Vector(space, data) by a caller, on the handle of an
\* existing vector or on something that is no handle
MakeVector(si, data) ==
    /\ Len(vectors) < MaxVecs
    /\ LET r == Vector_new(si, data)
       IN /\ vectors' = IF r.exc = "none" THEN Append(vectors, r.obj) ELSE vectors
          /\ last' = Call("Vector", r.exc, <<>>)
    /\ UNCHANGED <<module_state, nsp, nie, int_itemsize, spaces, mem>>

\* v[index] = value, for an int index and a number, or a slice and a host
\* array
SetItem(vi, index, value) ==
    /\ LET v == vectors[vi]
           r == Vector_setitem(mem, v, spaces[v.space].dtype, index, value)
       IN /\ r.exc = "none" => InCells(r.val)
          /\ mem' = IF r.exc = "none" THEN [mem EXCEPT ![v.data.ptr] = r.val] ELSE mem
          /\ last' = Call(IF index.k = "slice" THEN "setslice" ELSE "setitem", r.exc, <<>>)
    /\ UNCHANGED <<module_state, nsp, nie, int_itemsize, spaces, vectors>>

\* v[index]
GetItem(vi, index) ==
    /\ LET r == Vector_getitem(mem, vectors[vi], index)
       IN last' = Call(IF index.k = "slice" THEN "getslice" ELSE "getitem", r.exc, r.val)
    /\ UNCHANGED <<module_state, nsp, nie, int_itemsize, spaces, mem, vectors>>

\* space.lincomb(z, a, x, b, y) for vectors of the space
Lincomb(zi, a, xi, b, yi) ==
    /\ vectors[xi].space = vectors[zi].space /\ vectors[yi].space = vectors[zi].space
    /\ LET r == lincomb(mem, vectors[zi], a, vectors[xi], b, vectors[yi])
       IN /\ InCells(r)
          /\ mem' = [mem EXCEPT ![vectors[zi].data.ptr] = r]
    /\ last' = Call("lincomb", "none", <<>>)
    /\ UNCHANGED <<module_state, nsp, nie, int_itemsize, spaces, vectors>>

\* space.inner(x, y) for vectors of a CudaRn space
Inner(xi, yi) ==
    /\ spaces[vectors[xi].space].cls = "CudaRn"
    /\ vectors[yi].space = vectors[xi].space
    /\ last' = Call("inner", "none", <<inner(mem, vectors[xi], vectors[yi])>>)
    /\ UNCHANGED <<module_state, nsp, nie, int_itemsize, spaces, mem, vectors>>

\* space.norm(x) for a vector of a CudaRn space
Norm(xi) ==
    /\ spaces[vectors[xi].space].cls = "CudaRn"
    /\ last' = Call("norm", "none", <<norm(mem, vectors[xi])>>)
    /\ UNCHANGED <<module_state, nsp, nie, int_itemsize, spaces, mem, vectors>>

\* space.multiply(z, x, y) for vectors of a CudaRn space
Multiply(zi, xi, yi) ==
    /\ spaces[vectors[zi].space].cls = "CudaRn"
    /\ vectors[xi].space = vectors[zi].space /\ vectors[yi].space = vectors[zi].space
    /\ LET r == multiply(mem, vectors[zi], vectors[xi], vectors[yi])
       IN /\ InCells(r)
          /\ mem' = [mem EXCEPT ![vectors[zi].data.ptr] = r]
    /\ last' = Call("multiply", "none", <<>>)
    /\ UNCHANGED <<module_state, nsp, nie, int_itemsize, spaces, vectors>>

\* len(v)
VecLen(vi) ==
    /\ last' = Call("len", "none", <<Vector_len(vectors[vi])>>)
    /\ UNCHANGED <<module_state, nsp, nie, int_itemsize, spaces, mem, vectors>>

---------------------------------------------------------------------------
(* odl/space/cuda.py: the entry points of the native extension a call       *)
(* invokes, in order, and who raised its error.                             *)

\* One invocation of an entry point and the exception it raised ("none"
\* when it returned)
NativeEntry(name, exc) == [name |-> name, exc |-> exc]

\* What a call did: the exception that reached the caller, the layer that
\* raised it ("python", "native", or "none" without exception), and the
\* entry points invoked
Outcome(exc, native) ==
    [exc |-> exc,
     by |-> IF exc = "none" THEN "none"
            ELSE IF native # <<>> /\ native[Len(native)].exc # "none" THEN "native"
            ELSE "python",
     native |-> native]

\* CudaFn.__init__(dim, dtype): the tests of lines 86-96 and a lookup in
\* the dtypes table; no entry point is invoked
CudaFn_init_calls(dim, dtype, itemsize) ==
    Outcome(CudaFn_init("CudaFn", dim, dtype, itemsize).exc, <<>>)

\* CudaFn.Vector(space, data): isinstance only
Vector_new_calls(si, data) == Outcome(Vector_new(si, data).exc, <<>>)

\* v[index]: the index goes to getslice or __getitem__ of the handle as it is
Vector_getitem_calls(m, v, index) ==
    LET r == Vector_getitem(m, v, index)
    IN Outcome(r.exc, <<NativeEntry(IF index.k = "slice" THEN "getslice" ELSE "__getitem__", r.exc)>>)

\* v[index] = value: np.asarray for a slice, then setslice or __setitem__
\* of the handle
Vector_setitem_calls(m, v, dtype, index, value) ==
    LET r == Vector_setitem(m, v, dtype, index, value)
    IN Outcome(r.exc, <<NativeEntry(IF index.k = "slice" THEN "setslice" ELSE "__setitem__", r.exc)>>)

\* an element() that allocates before it looks at its arguments
element_calls_allocating_first(si, inp, ptr) ==
    LET how == element_dispatch(inp, ptr)
        alloc == NativeEntry("CudaVector", "none")
    IN IF how = "TypeError" THEN Outcome("TypeError", <<alloc>>)
       ELSE IF how = "from_pointer" THEN Outcome("none", <<alloc, NativeEntry("from_pointer", "none")>>)
       ELSE IF how = "inp"
       THEN LET r == element_inp(si, Repeat(0, spaces[si].dim), inp.v)
            IN Outcome(r.exc, <<alloc, NativeEntry("setslice", r.exc)>>)
       ELSE Outcome("none", <<alloc>>)

\* space.element(inp, data_ptr), lines 139-149: the allocation
\* self._vector_impl(self.dim), from_pointer, or the allocation and the
\* slice write of elem[:] = inp; nothing when both are given
element_calls(si, inp, ptr) ==
    LET how == element_dispatch(inp, ptr)
        alloc == NativeEntry("CudaVector", "none")
    IN IF how = "TypeError" THEN Outcome("TypeError", <<>>)
       ELSE IF how = "from_pointer" THEN Outcome("none", <<NativeEntry("from_pointer", "none")>>)
       ELSE IF how = "inp"
       THEN LET r == element_inp(si, Repeat(0, spaces[si].dim), inp.v)
            IN Outcome(r.exc, <<alloc, NativeEntry("setslice", r.exc)>>)
       ELSE Outcome("none", <<alloc>>)

---------------------------------------------------------------------------
(* The elementwise functions: odl/space/cuda.py (module functions) and     *)
(* RL/space/cuda.py (function properties of CudaRN).  Each makes one call   *)
(* of an entry point of its native extension; the entry points follow the   *)
(* contract the specification gives for them.                               *)

\* The arguments of a native call: a handle or a scalar
ArgHandle(h) == [k |-> "handle", h |-> h, s |-> 0]
ArgScalar(x) == [k |-> "scalar", h |-> NotAHandle, s |-> x]

\* A call of entry point `name` of the native extension `ext`
NativeCall(ext, name, args) == [ext |-> ext, name |-> name, args |-> args]

\* An RL vector: CudaRN.Vector, whose handle is its impl
RLVector(h) == [impl |-> h]

Abs(x) == IF x < 0 THEN 0 - x ELSE x
Sign(x) == IF x < 0 THEN 0 - 1 ELSE IF x > 0 THEN 1 ELSE 0

\* The kinds of the arguments of a call, in order
ArgKinds(args) == [i \in 1..Len(args) |-> args[i].k]

\* The entry points abs, sign, add_scalar / addScalar, max_vector_scalar /
\* maxVectorScalar, max_vector_vector / maxVectorVector and sum of the
\* extensions: the storage after the call and the value returned.  A call
\* with other arguments than the entry point takes raises TypeError.
native_elementwise(m, call) ==
    LET a == call.args
        cells(i) == m[a[i].h.ptr]
        out(i, f(_)) == [exc |-> "none", mem |-> [m EXCEPT ![a[i].h.ptr] = [j \in 1..Len(cells(1)) |-> f(j)]], val |-> <<>>]
        f_abs(j) == Abs(cells(1)[j])
        f_sign(j) == Sign(cells(1)[j])
        f_add(j) == cells(1)[j] + a[2].s
        f_maxs(j) == Max(cells(1)[j], a[2].s)
        f_maxv(j) == Max(cells(1)[j], cells(2)[j])
        hh == <<"handle", "handle">>
        hsh == <<"handle", "scalar", "handle">>
        hhh == <<"handle", "handle", "handle">>
    IN CASE call.name = "abs" /\ ArgKinds(a) = hh -> out(2, f_abs)
         [] call.name = "sign" /\ ArgKinds(a) = hh -> out(2, f_sign)
         [] call.name \in {"add_scalar", "addScalar"} /\ ArgKinds(a) = hsh -> out(3, f_add)
         [] call.name \in {"max_vector_scalar", "maxVectorScalar"} /\ ArgKinds(a) = hsh -> out(3, f_maxs)
         [] call.name \in {"max_vector_vector", "maxVectorVector"} /\ ArgKinds(a) = hhh -> out(3, f_maxv)
         [] call.name = "sum" /\ ArgKinds(a) = <<"handle">> -> [exc |-> "none", mem |-> m, val |-> <<SumSeq(cells(1))>>]
         [] OTHER -> [exc |-> "TypeError", mem |-> m, val |-> <<>>]

\* odl/space/cuda.py: the module functions
odl_abs(inp, outp) == NativeCall("odlpp_cuda", "abs", <<ArgHandle(inp.data), ArgHandle(outp.data)>>)
odl_sign(inp, outp) == NativeCall("odlpp_cuda", "sign", <<ArgHandle(inp.data), ArgHandle(outp.data)>>)
odl_add_scalar(inp, scal, outp) == NativeCall("odlpp_cuda", "add_scalar", <<ArgHandle(inp.data), ArgScalar(scal), ArgHandle(outp.data)>>)
odl_max_vector_scalar(inp, scal, outp) == NativeCall("odlpp_cuda", "max_vector_scalar", <<ArgHandle(inp.data), ArgScalar(scal), ArgHandle(outp.data)>>)
odl_max_vector_vector(inp1, inp2, outp) == NativeCall("odlpp_cuda", "max_vector_vector", <<ArgHandle(inp1.data), ArgHandle(inp2.data), ArgHandle(outp.data)>>)
odl_sum(inp) == NativeCall("odlpp_cuda", "sum", <<ArgHandle(inp.data)>>)

\* RL/space/cuda.py: the lambdas of the function properties of CudaRN
RL_abs(input, output) == NativeCall("RLcpp.PyCuda", "abs", <<ArgHandle(input.impl), ArgHandle(output.impl)>>)
RL_sign(input, output) == NativeCall("RLcpp.PyCuda", "sign", <<ArgHandle(input.impl), ArgHandle(output.impl)>>)
RL_addScalar(input, scalar, output) == NativeCall("RLcpp.PyCuda", "addScalar", <<ArgHandle(input.impl), ArgScalar(scalar), ArgHandle(output.impl)>>)
RL_maxVectorScalar(input, scalar, output) == NativeCall("RLcpp.PyCuda", "maxVectorScalar", <<ArgHandle(input.impl), ArgScalar(scalar), ArgHandle(output.impl)>>)
RL_maxVectorVector(input1, input2, output) == NativeCall("RLcpp.PyCuda", "maxVectorVector", <<ArgHandle(input1.impl), ArgHandle(input2.impl), ArgHandle(output.impl)>>)
RL_sum(input, output) == NativeCall("RLcpp.PyCuda", "abs", <<ArgHandle(input.impl)>>)

\* A call of the function `op` on `args` (handles and scalars as the caller
\* passes them), which makes the native call `call`
Forward(op, args, call) ==
    /\ LET r == native_elementwise(mem, call)
       IN /\ \A p \in 1..Len(r.mem) : InCells(r.mem[p])
          /\ mem' = r.mem
          /\ last' = [op |-> op, exc |-> r.exc, ret |-> r.val, args |-> args, call |-> call]
    /\ UNCHANGED <<module_state, nsp, nie, int_itemsize, spaces, vectors>>

\* The RL vector on the handle of vector i
RLv(i) == RLVector(vectors[i].data)
\* The handle of vector i as an argument
Hv(i) == ArgHandle(vectors[i].data)

---------------------------------------------------------------------------
(* Specifications. *)

SpaceIdle ==
    /\ int_itemsize = 8
    /\ module_state = Loaded
    /\ spaces = <<>>
    /\ mem = <<>>
    /\ vectors = <<>>
    /\ last = [op |-> "none"]

InitParam == NspInit /\ nie = NieIdle /\ SpaceIdle
NextParam == NspCall
SpecParam == InitParam /\ [][NextParam]_vars

InitSpace ==
    /\ nsp = NspIdle
    /\ nie = NieIdle
    /\ int_itemsize \in {4, 8}
    /\ module_state = Loaded
    /\ spaces = <<>>
    /\ mem = <<>>
    /\ vectors = <<>>
    /\ last = [op |-> "none"]

NextSpace ==
    \/ \E dim \in DimInputs, dtype \in DTypeInputs : NewCudaFn(dim, dtype)
    \/ \E dim \in DimInputs : NewCudaRn(dim)
    \/ \E i \in 1..Len(spaces), j \in 1..Len(spaces) : Equals(i, j)

SpecSpace == InitSpace /\ [][NextSpace]_vars

\* The import of the module, and the spaces a program makes once it is loaded
InitLoad ==
    /\ nsp = NspIdle
    /\ nie = NieIdle
    /\ int_itemsize \in {4, 8}
    /\ module_state = Unloaded
    /\ spaces = <<>>
    /\ mem = <<>>
    /\ vectors = <<>>
    /\ last = [op |-> "none"]

NextLoad ==
    \/ \E outcome \in ProbeOutcomes : ImportModule(outcome)
    \/ module_state.status = "loaded" /\ NextSpace

SpecLoad == InitLoad /\ [][NextLoad]_vars

\* Two spaces of one dimension: CudaRn(d) and CudaFn(d, t)
InitVec ==
    /\ nsp = NspIdle
    /\ nie = NieIdle
    /\ int_itemsize = 8
    /\ module_state = Loaded
    /\ \E d \in 1..MaxDim, t \in VecDTypes :
          spaces = <<CudaRn_init([t |-> "int", v |-> d], 8).obj, CudaFn_init("CudaFn", [t |-> "int", v |-> d], t, 8).obj>>
    /\ mem = <<>>
    /\ vectors = <<>>
    /\ last = Call("none", "none", <<>>)

NextVec ==
    \/ \E si \in 1..Len(spaces) :
          \E inp \in {NoInp} \cup {SomeInp(a) : a \in HostArrays}, ptr \in {NoneOpt} \cup {Some(p) : p \in PtrsFor(si)} :
             Element(si, inp, ptr)
    \/ \E si \in 1..Len(spaces) : Zero(si)
    \/ \E si \in 1..Len(spaces), d \in {vectors[i].data : i \in 1..Len(vectors)} \cup {NotAHandle} : MakeVector(si, d)
    \/ \E vi \in 1..Len(vectors), index \in VecInts(MaxDim), value \in CellVals : SetItem(vi, index, <<value>>)
    \/ \E vi \in 1..Len(vectors), index \in VecSlices, value \in HostArrays : SetItem(vi, index, value)
    \/ \E vi \in 1..Len(vectors), index \in VecIndices(MaxDim) : GetItem(vi, index)
    \/ \E zi \in 1..Len(vectors), xi \in 1..Len(vectors), yi \in 1..Len(vectors), a \in Scalars, b \in Scalars : Lincomb(zi, a, xi, b, yi)
    \/ \E xi \in 1..Len(vectors), yi \in 1..Len(vectors) : Inner(xi, yi)
    \/ \E xi \in 1..Len(vectors) : Norm(xi)
    \/ \E zi \in 1..Len(vectors), xi \in 1..Len(vectors), yi \in 1..Len(vectors) : Multiply(zi, xi, yi)
    \/ \E vi \in 1..Len(vectors) : VecLen(vi)

SpecVec == InitVec /\ [][NextVec]_vars

\* One CudaRn space and MaxVecs vectors of it, each on storage of its own
InitFwd ==
    /\ nsp = NspIdle
    /\ nie = NieIdle
    /\ int_itemsize = 8
    /\ module_state = Loaded
    /\ \E d \in 1..MaxDim :
          /\ spaces = <<CudaRn_init([t |-> "int", v |-> d], 8).obj>>
          /\ mem \in [1..MaxVecs -> [1..d -> CellVals]]
          /\ vectors = [i \in 1..MaxVecs |-> Vector_new(1, Handle("CudaVectorFloat32", i, d)).obj]
    /\ last = [op |-> "none", exc |-> "none", ret |-> <<>>, args |-> <<>>, call |-> NativeCall("none", "none", <<>>)]

NextFwd ==
    \E i \in 1..Len(vectors), j \in 1..Len(vectors), k \in 1..Len(vectors), x \in Scalars :
        \/ Forward("odl.abs", <<Hv(i), Hv(k)>>, odl_abs(vectors[i], vectors[k]))
        \/ Forward("odl.sign", <<Hv(i), Hv(k)>>, odl_sign(vectors[i], vectors[k]))
        \/ Forward("odl.add_scalar", <<Hv(i), ArgScalar(x), Hv(k)>>, odl_add_scalar(vectors[i], x, vectors[k]))
        \/ Forward("odl.max_vector_scalar", <<Hv(i), ArgScalar(x), Hv(k)>>, odl_max_vector_scalar(vectors[i], x, vectors[k]))
        \/ Forward("odl.max_vector_vector", <<Hv(i), Hv(j), Hv(k)>>, odl_max_vector_vector(vectors[i], vectors[j], vectors[k]))
        \/ Forward("odl.sum", <<Hv(i)>>, odl_sum(vectors[i]))
        \/ Forward("RL.abs", <<Hv(i), Hv(k)>>, RL_abs(RLv(i), RLv(k)))
        \/ Forward("RL.sign", <<Hv(i), Hv(k)>>, RL_sign(RLv(i), RLv(k)))
        \/ Forward("RL.addScalar", <<Hv(i), ArgScalar(x), Hv(k)>>, RL_addScalar(RLv(i), x, RLv(k)))
        \/ Forward("RL.maxVectorScalar", <<Hv(i), ArgScalar(x), Hv(k)>>, RL_maxVectorScalar(RLv(i), x, RLv(k)))
        \/ Forward("RL.maxVectorVector", <<Hv(i), Hv(j), Hv(k)>>, RL_maxVectorVector(RLv(i), RLv(j), RLv(k)))
        \/ Forward("RL.sum", <<Hv(i)>>, RL_sum(RLv(i), RLv(k)))

SpecFwd == InitFwd /\ [][NextFwd]_vars

InitIndex == NieInit /\ nsp = NspIdle /\ SpaceIdle
NextIndex == NieCall
SpecIndex == InitIndex /\ [][NextIndex]_vars

---------------------------------------------------------------------------
(* Claims about normalized_scalar_param_list (SpecParam). *)

\* The list the broadcasting rules name, before any conversion.
C7_Expected(param, length) ==
    IF length <= 0 THEN Raised("ValueError")
    ELSE IF param.kind = "scalar" THEN Returned(Repeat(param.val, length))
    ELSE IF Len(param.items) = 1 THEN Returned(Repeat(param.items[1], length))
    ELSE IF Len(param.items) = length THEN Returned(param.items)
    ELSE Raised("ValueError")

C8_Conversion ==
    (nsp.called /\ nsp.out.exc = "none") =>
        LET b == C7_Expected(nsp.param, nsp.length).val
        IN /\ Len(nsp.out.val) = Len(b)
           /\ \A i \in 1..Len(b) :
                 nsp.out.val[i] =
                    IF nsp.param_conv = "none" \/ (b[i].t = "none" /\ nsp.keep_none)
                    THEN b[i]
                    ELSE [b[i] EXCEPT !.c = 1]

C8_Witness ==
    /\ nsp.called
    /\ nsp.param_conv = "conv"
    /\ nsp.keep_none
    /\ nsp.param.items = <<PyInt(1), PyNone>>
    /\ nsp.out = Returned(<<[PyInt(1) EXCEPT !.c = 1], PyNone>>)

\* Whether a list entry is the parameter sequence itself, kept as one
\* value (t = "list", v its items).
C22_IsCopyOf(entry, param) == entry.t = "list" /\ entry.v = param.items

\* C22: as the docstring rules say, a sequence param is taken as a sequence
\* of parameters only when len(param) == length != 1; in every other case
\* (a sequence of another length included) param is a single parameter and
\* the result is a list of `length` copies of param itself.
C22_DocstringRules ==
    (nsp.called /\ nsp.length >= 1 /\ nsp.param_conv = "none") =>
        IF nsp.param.kind = "scalar"
        THEN nsp.out = Returned(Repeat(nsp.param.val, nsp.length))
        ELSE IF Len(nsp.param.items) = nsp.length /\ nsp.length # 1
        THEN nsp.out = Returned(nsp.param.items)
        ELSE /\ nsp.out.exc = "none"
             /\ Len(nsp.out.val) = nsp.length
             /\ \A i \in 1..Len(nsp.out.val) : C22_IsCopyOf(nsp.out.val[i], nsp.param)

\* C23: as the docstring note says, a str param whose length equals
\* `length` is split into its characters ('abc' with length 3 is
\* ['a', 'b', 'c']), and a str of another length is broadcast as one value.
C23_StringSplit ==
    (nsp.called /\ nsp.length >= 1 /\ nsp.param_conv = "none"
        /\ nsp.param.kind = "scalar" /\ nsp.param.val.t = "str") =>
        IF nsp.param.val.v = nsp.length
        THEN nsp.out = Returned(Repeat(PyStr(1), nsp.length))
        ELSE nsp.out = Returned(Repeat(nsp.param.val, nsp.length))

---------------------------------------------------------------------------
(* Claims about normalized_index_expression (SpecIndex). *)

\* An entry as the result holds it: an int turned into some slice when
\* int_to_slice is set, any other entry as it is.
C9_Kept(r, e, int_to_slice) ==
    IF e.k = "int" /\ int_to_slice THEN r.k = "slice" ELSE r = e

\* C9: one Ellipsis, wherever it stands, is replaced by len(shape) minus the
\* number of other entries full slices, the entries before and after it
\* keeping their order; an expression, or a bare int, slice or Ellipsis,
\* with fewer entries than axes and no Ellipsis is padded at the end with
\* full slices.
C9_EllipsisExpansion ==
    (nie.called /\ nie.out.exc = "none") =>
        LET ix == nie.indices.items
            ndim == Len(nie.shape)
            r == nie.out.val
            f == nie.int_to_slice
        IN /\ CountEllipsis(ix) = 1 =>
                LET e == IndexOfEllipsis(ix)
                    fill == ndim - (Len(ix) - 1)
                IN /\ fill >= 0
                   /\ Len(r) = ndim
                   /\ \A i \in 1..(e - 1) : C9_Kept(r[i], ix[i], f)
                   /\ \A i \in e..(e + fill - 1) : r[i] = FullSlice
                   /\ \A i \in (e + 1)..Len(ix) : C9_Kept(r[i + fill - 1], ix[i], f)
           /\ (CountEllipsis(ix) = 0 /\ Len(ix) < ndim) =>
                /\ Len(r) = ndim
                /\ \A i \in 1..Len(ix) : C9_Kept(r[i], ix[i], f)
                /\ \A i \in (Len(ix) + 1)..ndim : r[i] = FullSlice

C9_Witness ==
    /\ nie.called
    /\ nie.indices = [kind |-> "seq", items |-> <<EllipsisIdx, IntIdx(2)>>]
    /\ nie.shape = <<1, 3>>
    /\ nie.out = Returned(<<FullSlice, IntIdx(2)>>)

\* C10: an expression with more than one Ellipsis raises ValueError, whatever
\* its other entries and the shape, and returns nothing.
C10_TwoEllipses ==
    (nie.called /\ CountEllipsis(nie.indices.items) > 1) => nie.out = Raised("ValueError")

C10_Witness ==
    /\ nie.called
    /\ nie.indices.items = <<EllipsisIdx, IntIdx(3), EllipsisIdx>>
    /\ nie.shape = <<1>>
    /\ nie.out.exc = "ValueError"

\* The entries of the call in nie, one per axis, after listing, padding and
\* the expansion of the Ellipsis (an error when there are two of them).
C11_Expanded == nie_expand(nie_pad(nie_listify(nie.indices), Len(nie.shape)), Len(nie.shape))

\* The integer entries that stand on an axis: (position, value, axis size).
C11_IntEntries ==
    LET ix == C11_Expanded.val
    IN {<<i, ix[i].a.v, nie.shape[i]>> : i \in {j \in 1..Min(Len(ix), Len(nie.shape)) : ix[j].k = "int"}}

\* C11: every integer entry is checked against the size n of its axis: an
\* entry with idx >= n or idx < -n raises IndexError, so a call succeeds
\* only if -n <= idx < n for every integer entry.
C11_BoundsChecked ==
    (nie.called /\ C11_Expanded.exc = "none") =>
        /\ (\E e \in C11_IntEntries : e[2] >= e[3] \/ e[2] < 0 - e[3]) => nie.out = Raised("IndexError")
        /\ nie.out.exc = "none" => \A e \in C11_IntEntries : 0 - e[3] <= e[2] /\ e[2] < e[3]

\* C12: with int_to_slice every integer entry idx of a successful result is
\* slice(k, k+1) with k the wrap of idx into 0..n-1 (idx + n for a negative
\* idx), so the result holds only slices; without int_to_slice the integer
\* entries are kept.
C12_IntToSlice ==
    (nie.called /\ nie.out.exc = "none") =>
        LET r == nie.out.val
        IN /\ \A e \in C11_IntEntries :
                 IF nie.int_to_slice
                 THEN \E k \in 0..(e[3] - 1) :
                        /\ k = (IF e[2] < 0 THEN e[2] + e[3] ELSE e[2])
                        /\ r[e[1]] = Slice(Some(k), Some(k + 1))
                 ELSE r[e[1]] = IntIdx(e[2])
           /\ nie.int_to_slice => \A i \in 1..Len(r) : r[i].k = "slice"

\* The number of elements slice s (without step) selects of an axis of size
\* n, as Python's slice.indices(n) gives it.
C13_SliceLen(s, n) ==
    LET clip(v) == IF v < 0 THEN Max(v + n, 0) ELSE Min(v, n)
        start == IF s.a.some THEN clip(s.a.v) ELSE 0
        stop == IF s.b.some THEN clip(s.b.v) ELSE n
    IN Max(stop - start, 0)

\* C13: a slice entry that selects no element of its axis raises ValueError
\* (when no integer entry has raised IndexError before it), and no
\* successful result holds a slice entry that selects no element.
C13_NoEmptySlice ==
    (nie.called /\ C11_Expanded.exc = "none") =>
        LET ix == C11_Expanded.val
            m == Min(Len(ix), Len(nie.shape))
        IN /\ ((\E i \in 1..m : ix[i].k = "slice" /\ C13_SliceLen(ix[i], nie.shape[i]) = 0)
                /\ nie.out.exc # "IndexError") => nie.out = Raised("ValueError")
           /\ nie.out.exc = "none" =>
                \A i \in 1..m :
                    ix[i].k = "slice" => (nie.out.val[i] = ix[i] /\ C13_SliceLen(nie.out.val[i], nie.shape[i]) > 0)

\* Whether the call in nie holds None among its entries.
C14_HasNone == \E i \in 1..Len(nie.indices.items) : nie.indices.items[i].k = "none"

\* C14 as first stated: every expression with a None entry raises
\* ValueError, and no successful result holds None.
C14_NoneRaisesValueError ==
    nie.called =>
        /\ C14_HasNone => nie.out = Raised("ValueError")
        /\ nie.out.exc = "none" => \A i \in 1..Len(nie.out.val) : nie.out.val[i].k # "none"

\* C14, amended: every expression with a None entry raises and returns
\* nothing: IndexError when it has at most one Ellipsis and an integer entry
\* that, after n is added to a negative one, is at or above the size n of
\* its axis; ValueError otherwise; no successful result holds None.
C14_NoneRejected ==
    nie.called =>
        /\ C14_HasNone =>
              nie.out = IF /\ C11_Expanded.exc = "none"
                           /\ \E e \in C11_IntEntries : (IF e[2] < 0 THEN e[2] + e[3] ELSE e[2]) >= e[3]
                        THEN Raised("IndexError")
                        ELSE Raised("ValueError")
        /\ nie.out.exc = "none" => \A i \in 1..Len(nie.out.val) : nie.out.val[i].k # "none"

C14_Witness ==
    /\ nie.called
    /\ nie.indices = [kind |-> "seq", items |-> <<IntIdx(0), NoneIdx>>]
    /\ nie.shape = <<3, 1>>
    /\ nie.out = Raised("ValueError")

\* Whether every entry of a result is an int or a slice, one per axis.
C24_PerAxis(r, ndim) ==
    /\ Len(r) = ndim
    /\ \A i \in 1..Len(r) : r[i].k \in {"int", "slice"}

\* C24 as first stated: a successful call returns len(shape) entries, each
\* an int or a slice; an expression that has more than len(shape) entries
\* after the expansion of the Ellipsis raises IndexError.
C24_FullyExpanded ==
    nie.called =>
        /\ nie.out.exc = "none" => C24_PerAxis(nie.out.val, Len(nie.shape))
        /\ (C11_Expanded.exc = "none" /\ Len(C11_Expanded.val) > Len(nie.shape))
              => nie.out = Raised("IndexError")

\* The error of an expression with too many entries: the checks that run
\* before the count of the entries decide it.
C24_Rejection ==
    LET ix == C11_Expanded.val
        m == Min(Len(ix), Len(nie.shape))
    IN IF \E e \in C11_IntEntries : (IF e[2] < 0 THEN e[2] + e[3] ELSE e[2]) >= e[3]
       THEN Raised("IndexError")
       ELSE IF \/ \E i \in 1..m : /\ ix[i].k = "slice"
                                   /\ ix[i].a.some
                                   /\ (ix[i].a = ix[i].b \/ ix[i].a.v = nie.shape[i])
               \/ \E i \in 1..Len(ix) : ix[i].k = "none"
       THEN Raised("ValueError")
       ELSE Raised("IndexError")

\* C24, amended: a successful call returns len(shape) entries, each an int
\* or a slice; an expression that has more than len(shape) entries after
\* the expansion of the Ellipsis (also when the entries beside the Ellipsis
\* alone are too many) raises and returns nothing: ValueError when no
\* integer entry on an axis is at or above its size and either a slice on an
\* axis has start == stop (not None) or start equal to the axis size, or an
\* entry is None; IndexError otherwise.
C24_ExpandedOrRejected ==
    nie.called =>
        /\ nie.out.exc = "none" => C24_PerAxis(nie.out.val, Len(nie.shape))
        /\ (C11_Expanded.exc = "none" /\ Len(C11_Expanded.val) > Len(nie.shape))
              => nie.out = C24_Rejection

C24_Witness ==
    /\ nie.called
    /\ nie.indices = [kind |-> "seq", items |-> <<EllipsisIdx, IntIdx(0), IntIdx(0)>>]
    /\ nie.shape = <<1>>
    /\ nie.out = Raised("IndexError")

\* The result of a call, passed as the expression of a second call.
C25_Again ==
    normalized_index_expression([kind |-> "seq", items |-> nie.out.val],
                                nie.shape, nie.int_to_slice)

\* C25: normalized_index_expression is idempotent and leaves its argument
\* untouched: when r = normalized_index_expression(e, s, f) succeeds,
\* normalized_index_expression(r, s, f) succeeds and returns r; and the
\* caller's sequence e has the same entries after the call as before it,
\* whether the call succeeded or raised.
C25_Idempotent ==
    nie.called =>
        /\ nie.out.exc = "none" => C25_Again = nie.out
        /\ nie.argument = nie.indices.items

C25_Witness ==
    /\ nie.called
    /\ nie.indices = [kind |-> "seq", items |-> <<IntIdx(-1)>>]
    /\ nie.shape = <<3, 3>>
    /\ nie.int_to_slice
    /\ nie.out = Returned(<<Slice(Some(2), Some(3)), FullSlice>>)
    /\ C25_Again = nie.out
    /\ nie.argument = <<IntIdx(-1)>>

---------------------------------------------------------------------------
(* Claims about the construction and equality of spaces (SpecSpace). *)

\* The dtype arguments that name one of the ten supported element types
\* (the Python types float and int are float64 and int32 or int64).
C1_SupportedInputs == SupportedDTypes \cup {"float", "int"}

C2_StructuralEquality ==
    last.op = "equals" =>
        ((last.ret = 1) <=> (/\ spaces[last.self].dim = spaces[last.other].dim
                             /\ spaces[last.self].dtype = spaces[last.other].dtype))

---------------------------------------------------------------------------
(* Claims about vectors (SpecVec). *)

\* C3: a vector construction whose data is not an instance of the
\* implementation type registered for the space's dtype fails with
\* TypeError and yields no vector, so the handle of every vector is of its
\* space's implementation type.
C3_HandleTypeChecked ==
    /\ [](\A i \in 1..Len(vectors) : vectors[i].data.impl = spaces[vectors[i].space].vector_impl)
    /\ [][\A si \in 1..Len(spaces), d \in {vectors[i].data : i \in 1..Len(vectors)} \cup {NotAHandle} :
            (MakeVector(si, d) /\ d.impl # spaces[si].vector_impl)
                => (last'.exc = "TypeError" /\ vectors' = vectors)]_vars

C3_Witness ==
    /\ last = Call("Vector", "TypeError", <<>>)
    /\ Len(vectors) = 1
    /\ vectors[1].data.impl = "CudaVectorInt8"
    /\ spaces[1].vector_impl = "CudaVectorFloat32"

\* C4: after lincomb(z, a, x, b, y) on vectors of one space, z[i] is
\* a*x[i] + b*y[i] for every index i, x[i] and y[i] being the values held
\* before the call.
C4_Lincomb ==
    [][last'.op = "lincomb" =>
        \A zi \in 1..Len(vectors), xi \in 1..Len(vectors), yi \in 1..Len(vectors), a \in Scalars, b \in Scalars :
            Lincomb(zi, a, xi, b, yi) =>
                \A i \in 1..spaces[vectors[zi].space].dim :
                    Cells(mem', vectors'[zi])[i] = a * Cells(mem, vectors[xi])[i] + b * Cells(mem, vectors[yi])[i]]_vars

C4_Witness ==
    /\ last.op = "lincomb"
    /\ Len(vectors) = 2
    /\ vectors[1].data.ptr # vectors[2].data.ptr
    /\ Cells(mem, vectors[1]) = <<-1, 1>>
    /\ Cells(mem, vectors[2]) = <<0, -1>>

\* The host values a dtype of SpecVec holds exactly.
C5_Representable(a, dtype) ==
    \A i \in 1..Len(a) :
        IF dtype = "int8" THEN a[i] \in -128..127 ELSE a[i] \in -16777216..16777216

\* C5: for a host array a of the space's dimension whose values the dtype
\* holds, after v[:] = a the read v[:] returns the values of a in order, and
\* so does the read of space.element(a).
C5_RoundTrip ==
    [][/\ last'.op = "setslice" =>
            \A vi \in 1..Len(vectors), a \in HostArrays :
                (/\ Len(a) = spaces[vectors[vi].space].dim
                 /\ C5_Representable(a, spaces[vectors[vi].space].dtype)
                 /\ SetItem(vi, FullSlice, a))
                    => (last'.exc = "none" /\ Vector_getitem(mem', vectors'[vi], FullSlice) = Returned(a))
       /\ last'.op = "element_inp" =>
            \A si \in 1..Len(spaces), a \in HostArrays :
                (/\ Len(a) = spaces[si].dim
                 /\ C5_Representable(a, spaces[si].dtype)
                 /\ ElementInp(si, a))
                    => (/\ last'.exc = "none"
                        /\ Len(vectors') = Len(vectors) + 1
                        /\ vectors'[Len(vectors')].space = si
                        /\ Vector_getitem(mem', vectors'[Len(vectors')], FullSlice) = Returned(a))]_vars

C5_Witness ==
    /\ last = Call("element_inp", "none", <<>>)
    /\ Len(vectors) = 1
    /\ spaces[vectors[1].space].dtype = "int8"
    /\ Vector_getitem(mem, vectors[1], FullSlice) = Returned(<<-1, 0>>)

\* The positions (1-based) a..b-1 of a vector of n cells that the slice a:b
\* addresses; a missing a is 0, a missing b is n.
C26_Range(index, n) ==
    {j \in 1..n : /\ (index.a.some => j > index.a.v)
                  /\ (index.b.some => j <= index.b.v)}

\* The effect of an indexed write or read on the cells of the vector: shared
\* by the claim as stated and as amended.
C26_Indexed ==
    /\ (last'.op \in {"setitem", "setslice"} /\ last'.exc # "none") => mem' = mem
    /\ (last'.op = "setitem" /\ last'.exc = "none") =>
          \A vi \in 1..Len(vectors), index \in VecInts(MaxDim), c \in CellVals :
              SetItem(vi, index, <<c>>) =>
                  LET old == Cells(mem, vectors[vi])
                      new == Cells(mem', vectors[vi])
                  IN /\ Len(new) = Len(old)
                     /\ Vector_getitem(mem', vectors[vi], index) = Returned(<<c>>)
                     /\ \A j \in 1..Len(old) : j # index.a.v + 1 => new[j] = old[j]
    /\ (last'.op = "setslice" /\ last'.exc = "none") =>
          \A vi \in 1..Len(vectors), index \in VecSlices, vals \in HostArrays :
              SetItem(vi, index, vals) =>
                  LET old == Cells(mem, vectors[vi])
                      new == Cells(mem', vectors[vi])
                      dtype == spaces[vectors[vi].space].dtype
                      first == IF index.a.some THEN index.a.v ELSE 0
                  IN /\ Len(new) = Len(old)
                     /\ \A j \in 1..Len(old) :
                           IF j \in C26_Range(index, Len(old))
                           THEN new[j] = np_cast(vals[j - first], dtype)
                           ELSE new[j] = old[j]
    /\ last'.op \in {"getitem", "getslice"} => mem' = mem

C21_RaisedFirst(o) == o.exc # "none" => (o.by = "python" /\ o.native = <<>>)

\* An error of an entry point is the caller's error: the entry point that
\* raised is the last one invoked, it was invoked once, and the exception is
\* the one it raised.
C21_PassedThrough(o) ==
    o.by = "native" =>
        /\ o.native[Len(o.native)].exc = o.exc
        /\ \A i \in 1..(Len(o.native) - 1) :
              o.native[i].exc = "none" /\ o.native[i].name # o.native[Len(o.native)].name

\* The calls of the model that are not indexed accesses: the errors of the
\* constructors and of element(inp, data_ptr) with both arguments are
\* raised first, and every native error is passed through.
C21_Constructors ==
    /\ \A dim \in DimInputs, dtype \in DTypeInputs :
          C21_RaisedFirst(CudaFn_init_calls(dim, dtype, int_itemsize))
    /\ \A si \in 1..Len(spaces) :
          /\ \A d \in {vectors[i].data : i \in 1..Len(vectors)} \cup {NotAHandle} :
                C21_RaisedFirst(Vector_new_calls(si, d))
          /\ \A inp \in {NoInp} \cup {SomeInp(a) : a \in HostArrays}, ptr \in {NoneOpt} \cup {Some(p) : p \in PtrsFor(si)} :
                /\ (inp.some /\ ptr.some) =>
                      /\ element_calls(si, inp, ptr).exc = "TypeError"
                      /\ C21_RaisedFirst(element_calls(si, inp, ptr))
                /\ C21_PassedThrough(element_calls(si, inp, ptr))

\* The indexed accesses with an int index, in bounds or not, and with a
\* slice
C21_IndexedCalls(vi) ==
    {Vector_getitem_calls(mem, vectors[vi], index) : index \in VecIndices(MaxDim)}
    \cup {Vector_setitem_calls(mem, vectors[vi], spaces[vectors[vi].space].dtype, index, <<c>>) :
              index \in VecInts(MaxDim), c \in CellVals}
    \cup {Vector_setitem_calls(mem, vectors[vi], spaces[vectors[vi].space].dtype, index, vals) :
              index \in VecSlices, vals \in HostArrays}

\* C21 as stated: every validation error (invalid dimension, unsupported
\* dtype, mismatched handle type, both inp and data_ptr, index out of bounds
\* on a vector) is raised by the Python layer before any entry point of the
\* native extension is invoked for the call; an error of an entry point
\* reaches the caller unchanged, without retry or translation.
C21_ValidationFirst ==
    /\ C21_Constructors
    /\ \A vi \in 1..Len(vectors) :
          /\ \A o \in C21_IndexedCalls(vi) : C21_PassedThrough(o)
          /\ \A index \in VecInts(MaxDim) :
                index.a.v >= Vector_len(vectors[vi]) =>
                    /\ Vector_getitem_calls(mem, vectors[vi], index).exc # "none"
                    /\ C21_RaisedFirst(Vector_getitem_calls(mem, vectors[vi], index))

\* C21, amended: the errors for an invalid dimension, an unsupported dtype,
\* a mismatched handle type and both inp and data_ptr are raised by the
\* Python layer before any entry point is invoked for the call; an index out
\* of bounds on a vector is not tested by the Python layer, it is raised by
\* the entry point the index is handed to; an error of an entry point
\* reaches the caller unchanged, without retry or translation.
C21_ValidationFirstButIndices ==
    /\ C21_Constructors
    /\ \A vi \in 1..Len(vectors) :
          /\ \A o \in C21_IndexedCalls(vi) :
                /\ C21_PassedThrough(o)
                /\ o.exc # "none" => o.by = "native"
          /\ \A index \in VecInts(MaxDim) :
                index.a.v >= Vector_len(vectors[vi]) =>
                    Vector_getitem_calls(mem, vectors[vi], index) =
                        Outcome("IndexError", <<NativeEntry("__getitem__", "IndexError")>>)

C21_Witness ==
    /\ last.op = "getitem"
    /\ last.exc = "IndexError"
    /\ Len(vectors) = 2
    /\ \E vi \in 1..Len(vectors) :
          Vector_getitem_calls(mem, vectors[vi], IntIdx(Vector_len(vectors[vi]))).by = "native"
    /\ \E si \in 1..Len(spaces), a \in HostArrays :
          element_calls(si, SomeInp(a), Some(1)) = Outcome("TypeError", <<>>)

\* C15: element(inp, data_ptr) with neither argument returns a new vector
\* of dim cells; with only inp a new vector whose cells are inp (an array of
\* dim values the dtype holds); with only data_ptr a vector on the storage
\* at data_ptr with dim cells; with both it raises TypeError and makes no
\* vector.  A vector it returns is of the space it was called on.
C15_ElementDispatch ==
    [][last'.op \in {"element", "element_ptr", "element_inp", "element_both"} =>
        \A si \in 1..Len(spaces) :
          \A inp \in {NoInp} \cup {SomeInp(a) : a \in HostArrays}, ptr \in {NoneOpt} \cup {Some(p) : p \in PtrsFor(si)} :
            Element(si, inp, ptr) =>
                LET new == vectors'[Len(vectors')]
                    made == /\ last'.exc = "none"
                            /\ vectors' = Append(vectors, new)
                            /\ new.space = si
                            /\ new.data.size = spaces[si].dim
                            /\ Len(Cells(mem', new)) = spaces[si].dim
                IN /\ (~inp.some /\ ~ptr.some) => (made /\ Len(mem') = Len(mem) + 1)
                   /\ (inp.some /\ ~ptr.some) =>
                        /\ last'.exc = "none" => made
                        /\ (Len(inp.v) = spaces[si].dim /\ C5_Representable(inp.v, spaces[si].dtype))
                              => (made /\ Cells(mem', new) = inp.v)
                   /\ (~inp.some /\ ptr.some) => (made /\ data_ptr(new) = ptr.v /\ mem' = mem)
                   /\ (inp.some /\ ptr.some) => (last'.exc = "TypeError" /\ vectors' = vectors /\ mem' = mem)]_vars

C15_Witness ==
    /\ last = Call("element_both", "TypeError", <<>>)
    /\ Len(vectors) = 1
    /\ Len(mem) = 1

\* C16: a vector y made by space.element(data_ptr=x.data_ptr) is on the
\* storage of x and nothing is copied: right after the call y reads what x
\* reads, and after any writes through either of them two vectors on one
\* storage read the same values at every index.
C16_Aliasing ==
    /\ [](\A i \in 1..Len(vectors), j \in 1..Len(vectors) :
            data_ptr(vectors[i]) = data_ptr(vectors[j])
                => Vector_getitem(mem, vectors[i], FullSlice) = Vector_getitem(mem, vectors[j], FullSlice))
    /\ [][last'.op = "element_ptr" =>
            \A si \in 1..Len(spaces), xi \in 1..Len(vectors) :
                (vectors[xi].space = si /\ ElementPtr(si, data_ptr(vectors[xi]))) =>
                    LET y == vectors'[Len(vectors')]
                    IN /\ Len(vectors') = Len(vectors) + 1
                       /\ data_ptr(y) = data_ptr(vectors[xi])
                       /\ mem' = mem
                       /\ Vector_getitem(mem', y, FullSlice) = Vector_getitem(mem, vectors[xi], FullSlice)]_vars

C16_Witness ==
    /\ last = Call("element_ptr", "none", <<>>)
    /\ Len(vectors) = 2
    /\ vectors[1].space = vectors[2].space
    /\ data_ptr(vectors[1]) = data_ptr(vectors[2])
    /\ Cells(mem, vectors[2]) = <<1, -1>>

\* C17 as first stated: element(), zero(), lincomb, multiply and indexed writes keep
\* every vector on storage of its own: starting from vectors that share no
\* storage, none of these operations makes two vectors share storage.
C17_ExclusiveOwnership ==
    [][(/\ last'.op \in {"element", "element_inp", "element_ptr", "element_both", "zero", "lincomb", "multiply", "setitem", "setslice"}
        /\ \A i \in 1..Len(vectors), j \in 1..Len(vectors) : i # j => data_ptr(vectors[i]) # data_ptr(vectors[j]))
            => \A i \in 1..Len(vectors'), j \in 1..Len(vectors') : i # j => data_ptr(vectors'[i]) # data_ptr(vectors'[j])]_vars

\* C17, amended: a vector made by element() without arguments, element(inp)
\* or zero() is on fresh storage no other vector refers to; no operation
\* changes the handle of an existing vector; and an indexed write, a
\* lincomb or a multiply changes the values read through two vectors only if the two are
\* on the same storage.
C17_OwnStorageUnlessShared ==
    [][/\ \A i \in 1..Len(vectors) : Len(vectors') >= i /\ vectors'[i] = vectors[i]
       /\ (last'.op \in {"element", "element_inp", "zero"} /\ Len(vectors') = Len(vectors) + 1) =>
             /\ Len(mem') = Len(mem) + 1
             /\ data_ptr(vectors'[Len(vectors')]) = Len(mem')
             /\ \A i \in 1..Len(vectors) :
                   /\ data_ptr(vectors[i]) # data_ptr(vectors'[Len(vectors')])
                   /\ Cells(mem', vectors[i]) = Cells(mem, vectors[i])
       /\ last'.op \in {"setitem", "setslice", "lincomb", "multiply"} =>
             \A i \in 1..Len(vectors), j \in 1..Len(vectors) :
                (/\ Cells(mem', vectors[i]) # Cells(mem, vectors[i])
                 /\ Cells(mem', vectors[j]) # Cells(mem, vectors[j]))
                    => data_ptr(vectors[i]) = data_ptr(vectors[j])]_vars

C17_Witness ==
    /\ last = Call("setslice", "none", <<>>)
    /\ Len(vectors) = 2
    /\ vectors[1].space = vectors[2].space
    /\ data_ptr(vectors[1]) # data_ptr(vectors[2])
    /\ Cells(mem, vectors[1]) = <<0, 0>>
    /\ Cells(mem, vectors[2]) = <<-1, 1>>

\* C18: no operation on a space or on its vectors changes the space's
\* dimension, dtype or implementation type, and len(v) of every vector is
\* and stays the dimension of its space.
C18_SpaceImmutable ==
    /\ [](\A i \in 1..Len(vectors) : Vector_len(vectors[i]) = spaces[vectors[i].space].dim)
    /\ [][/\ \A si \in 1..Len(spaces) :
                /\ spaces'[si].dim = spaces[si].dim
                /\ spaces'[si].dtype = spaces[si].dtype
                /\ spaces'[si].vector_impl = spaces[si].vector_impl
          /\ \A i \in 1..Len(vectors) : Vector_len(vectors'[i]) = Vector_len(vectors[i])
          /\ last'.op = "len" => \E vi \in 1..Len(vectors) : last'.ret = <<spaces[vectors[vi].space].dim>>]_vars

C18_Witness ==
    /\ last = Call("len", "none", <<2>>)
    /\ Len(vectors) = 2
    /\ spaces[vectors[1].space].dim = 2
    /\ Cells(mem, vectors[1]) # Cells(mem, vectors[2])

\* C6: for every vector x of a CudaRn space norm(x)^2 equals inner(x, x),
\* and inner(x, y) is the sum over i of x[i]*y[i].
C6_NormInner ==
    /\ [](\A xi \in 1..Len(vectors) :
            spaces[vectors[xi].space].cls = "CudaRn"
                => Square(norm(mem, vectors[xi])) = inner(mem, vectors[xi], vectors[xi]))
    /\ [][/\ \A xi \in 1..Len(vectors), yi \in 1..Len(vectors) :
                Inner(xi, yi) =>
                    last'.ret = <<SumSeq([i \in 1..spaces[vectors[xi].space].dim |->
                                    Cells(mem, vectors[xi])[i] * Cells(mem, vectors[yi])[i]])>>
          /\ \A xi \in 1..Len(vectors) :
                Norm(xi) => Square(last'.ret[1]) = inner(mem, vectors[xi], vectors[xi])]_vars

C6_Witness ==
    /\ last = Call("norm", "none", <<Sqrt(2)>>)
    /\ Len(vectors) = 1
    /\ Cells(mem, vectors[1]) = <<-1, 1>>

---------------------------------------------------------------------------
(* Claims about the import of the module (SpecLoad). *)

\* C20: each load of the module probes the backend once, by
\* CudaRn(1).element(): a probe that fails with MemoryError makes the load
\* fail with ImportError, a probe that succeeds lets the module load, and
\* any other failure of the probe leaves the load as it is, unconverted.
C20_ModuleProbe ==
    /\ [](/\ module_state.probes = module_state.loads
          /\ module_state.status = "loaded" => last.op # "import" \/ last.exc = "none")
    /\ [][\A outcome \in ProbeOutcomes :
            ImportModule(outcome) =>
                /\ module_state'.probes = module_state.probes + 1
                /\ outcome = "MemoryError" => (last'.exc = "ImportError" /\ module_state'.status = "failed")
                /\ outcome = "none" => (last'.exc = "none" /\ module_state'.status = "loaded")
                /\ outcome \notin {"none", "MemoryError"} => (last'.exc = outcome /\ module_state'.status = "failed")]_vars

C20_Witness ==
    /\ last = [op |-> "import", exc |-> "ImportError", probe |-> "MemoryError"]
    /\ module_state = [status |-> "failed", loads |-> 2, probes |-> 2]

---------------------------------------------------------------------------
(* Claims about the elementwise functions (SpecFwd). *)

\* The native entry point of the operation a function is named after.
C19_EntryPoint(op) ==
    CASE op = "odl.abs" -> NativeCall("odlpp_cuda", "abs", <<>>)
      [] op = "odl.sign" -> NativeCall("odlpp_cuda", "sign", <<>>)
      [] op = "odl.add_scalar" -> NativeCall("odlpp_cuda", "add_scalar", <<>>)
      [] op = "odl.max_vector_scalar" -> NativeCall("odlpp_cuda", "max_vector_scalar", <<>>)
      [] op = "odl.max_vector_vector" -> NativeCall("odlpp_cuda", "max_vector_vector", <<>>)
      [] op = "odl.sum" -> NativeCall("odlpp_cuda", "sum", <<>>)
      [] op = "RL.abs" -> NativeCall("RLcpp.PyCuda", "abs", <<>>)
      [] op = "RL.sign" -> NativeCall("RLcpp.PyCuda", "sign", <<>>)
      [] op = "RL.addScalar" -> NativeCall("RLcpp.PyCuda", "addScalar", <<>>)
      [] op = "RL.maxVectorScalar" -> NativeCall("RLcpp.PyCuda", "maxVectorScalar", <<>>)
      [] op = "RL.maxVectorVector" -> NativeCall("RLcpp.PyCuda", "maxVectorVector", <<>>)
      [] op = "RL.sum" -> NativeCall("RLcpp.PyCuda", "sum", <<>>)

\* C19: each of abs, sign, add_scalar, max_vector_scalar, max_vector_vector
\* and sum, of odl and of RL, calls the native entry point of its own
\* operation on the handles of its vector arguments (and the scalar) in the
\* order given; sum returns the native sum of its input.
C19_Forwarders ==
    last.op # "none" =>
        /\ last.call.ext = C19_EntryPoint(last.op).ext
        /\ last.call.name = C19_EntryPoint(last.op).name
        /\ last.call.args = last.args
        /\ last.op \in {"odl.sum", "RL.sum"} => (last.exc = "none" /\ last.ret = <<SumSeq(mem[last.args[1].h.ptr])>>)

=============================================================================
